---------------------------- MODULE Spec2Model ----------------------------
(***************************************************************************)
(* A model of the 3D box packing visualiser (src/3d-box-visualiser.py):    *)
(* the placement engine (check_overlap, pack_recursive_helper, check_fit), *)
(* the container generator (generate_containers), the item parser          *)
(* (parse_box_string) and the combination search (PackerApp.run_packing).  *)
(***************************************************************************)
EXTENDS Integers, Sequences, FiniteSets, TLC

VARIABLES
    fit_pc,           \* "idle" before check_fit is called, "done" once it returned,
                      \* "helper done" once pack_recursive_helper, called instead, returned
    fit_boxes,        \* check_fit's argument boxes_to_pack of the last call
    fit_container,    \* check_fit's argument container of the last call
    fit_order,        \* the set iteration order the interpreter used in it
    fit_result,       \* what the call returned
    ovl_pc,           \* "idle" before check_overlap is called, "done" once it returned
    ovl_placed_boxes, \* check_overlap's argument placed_boxes
    ovl_candidate,    \* its arguments x, y, z, l, w, h
    ovl_result,       \* what the call returned
    gen_pc,           \* "idle" before generate_containers is called, "done" after
    gen_args,         \* its arguments total_sum, max_dim, min_dim, increment
    gen_order,        \* the set iteration order the interpreter used in it
    gen_result,       \* the list it returned
    box_entries,      \* PackerApp.box_entries: the text of each dims entry
    rule_entries,     \* the text of the five rule entries
    containers,       \* PackerApp.containers
    successful_fits,  \* PackerApp.successful_fits
    result_text,      \* the log pane: the messages that tell how the last run went
    app_pc,           \* "returned" when run_packing has just returned, "ready"
                      \* before the first run and once an entry is edited
    \* The trace of the run that has just returned (empty when app_pc = "ready"):
    run_order,        \* the set iteration order the interpreter used in it
    fits_at_entry,    \* the length of successful_fits when it started
    parse_calls,      \* the entries parse_box_string was called on, in order
    combinations_tried, \* the combinations it enumerated, in order
    fit_calls         \* its check_fit calls, in order

fitvars == <<fit_pc, fit_boxes, fit_container, fit_order, fit_result>>

ovlvars == <<ovl_pc, ovl_placed_boxes, ovl_candidate, ovl_result>>

genvars == <<gen_pc, gen_args, gen_order, gen_result>>

tracevars == <<run_order, fits_at_entry, parse_calls, combinations_tried, fit_calls>>

appvars == <<box_entries, rule_entries, containers, successful_fits, result_text,
             app_pc, run_order, fits_at_entry, parse_calls, combinations_tried, fit_calls>>

vars == <<fit_pc, fit_boxes, fit_container, fit_order, fit_result,
          ovl_pc, ovl_placed_boxes, ovl_candidate, ovl_result,
          gen_pc, gen_args, gen_order, gen_result,
          box_entries, rule_entries, containers, successful_fits, result_text,
          app_pc, run_order, fits_at_entry, parse_calls, combinations_tried, fit_calls>>

-----------------------------------------------------------------------------
(* Bounds of the model.                                                    *)

\* check_fit is applied to lists of at most MaxItems boxes
MaxItems == 3
\* ... in containers whose dimensions are in 1..MaxContDim
MaxContDim == 3
\* and to lists of at most MaxFlatItems boxes of height 1
MaxFlatItems == 4
\* ... in containers of height 1 whose other dimensions are in 1..MaxFlatDim
MaxFlatDim == 4
\* the iteration orders of a Python set the model distinguishes: 0..NumIterOrders-1
NumIterOrders == 2
\* generate_containers is applied to total_sum in 0..MaxTotalSum,
MaxTotalSum == 9
\* max_dim in 0..MaxMaxDim,
MaxMaxDim == 4
\* min_dim in 0..MaxMinDim
MaxMinDim == 3
\* and increment in -1..MaxIncrement
MaxIncrement == 3
\* the application has NumEntries box entries
NumEntries == 3
\* check_overlap is applied to placed boxes with x, y, z in 0..MaxPlacedCoord
MaxPlacedCoord == 4
\* ... and l, w, h in 1..MaxPlacedSize
MaxPlacedSize == 3

-----------------------------------------------------------------------------
(* Data classes (namedtuples).                                             *)

\* Box(name, l, w, h, weight, volume, color_hex). The name stands for the
\* object's identity; color_hex is display only and left out.
Box(name, l, w, h, weight) ==
    [name |-> name, l |-> l, w |-> w, h |-> h, weight |-> weight, volume |-> l * w * h]

\* Container(l, w, h, volume)
Container(l, w, h) == [l |-> l, w |-> w, h |-> h, volume |-> l * w * h]

\* PlacedBox(box, x, y, z, l, w, h)
PlacedBox(box, x, y, z, l, w, h) ==
    [box |-> box, x |-> x, y |-> y, z |-> z, l |-> l, w |-> w, h |-> h]

\* Python's None, and a returned list
None == [found |-> FALSE, placed |-> <<>>]

Some(placed) == [found |-> TRUE, placed |-> placed]

-----------------------------------------------------------------------------
(* Python built-ins the code relies on.                                    *)

\* tuple comparison: lexicographic
TupleLess(a, b) ==
    \/ a[1] < b[1]
    \/ a[1] = b[1] /\ a[2] < b[2]
    \/ a[1] = b[1] /\ a[2] = b[2] /\ a[3] < b[3]

\* sorted(list(S)) for a set S of 3-tuples: the element with i - 1 smaller
\* elements comes i-th
sorted_tuples(S) ==
    LET smaller == [a \in S |-> Cardinality({ b \in S : TupleLess(b, a) })]
    IN  [i \in 1..Cardinality(S) |-> CHOOSE a \in S : smaller[a] = i - 1]

Reverse(s) == [i \in 1..Len(s) |-> s[Len(s) + 1 - i]]

RotateLeft(s, n) ==
    IF Len(s) = 0 THEN s
    ELSE [i \in 1..Len(s) |-> s[((i - 1 + n) % Len(s)) + 1]]

\* Iterating over a Python set visits each element once, in an order the
\* language leaves to the implementation. order selects one: the ascending
\* sequence rotated left by order \div 2, reversed when order is odd.
set_iter(S, order) ==
    LET asc == RotateLeft(sorted_tuples(S), order \div 2)
    IN  IF order % 2 = 0 THEN asc ELSE Reverse(asc)

\* set(itertools.permutations(dims))
rotations(dims) ==
    { <<dims[1], dims[2], dims[3]>>, <<dims[1], dims[3], dims[2]>>,
      <<dims[2], dims[1], dims[3]>>, <<dims[2], dims[3], dims[1]>>,
      <<dims[3], dims[1], dims[2]>>, <<dims[3], dims[2], dims[1]>> }

-----------------------------------------------------------------------------
(* Packing logic.                                                          *)

\* check_overlap taking a placed box to end, on the z axis, where it starts
check_overlap_flat_z(placed_boxes, x, y, z, l, w, h) ==
    \E i \in 1..Len(placed_boxes) :
        LET p_box == placed_boxes[i]
            no_overlap_x == x + l <= p_box.x \/ x >= p_box.x + p_box.l
            no_overlap_y == y + w <= p_box.y \/ y >= p_box.y + p_box.w
            no_overlap_z == z + h <= p_box.z \/ z >= p_box.z
        IN  ~(no_overlap_x \/ no_overlap_y \/ no_overlap_z)

\* check_overlap comparing the candidate with the last placed box only
check_overlap_last_only(placed_boxes, x, y, z, l, w, h) ==
    \E i \in { Len(placed_boxes) } \ {0} :
        LET p_box == placed_boxes[i]
            no_overlap_x == x + l <= p_box.x \/ x >= p_box.x + p_box.l
            no_overlap_y == y + w <= p_box.y \/ y >= p_box.y + p_box.w
            no_overlap_z == z + h <= p_box.z \/ z >= p_box.z + p_box.h
        IN  ~(no_overlap_x \/ no_overlap_y \/ no_overlap_z)

\* check_overlap taking boxes that share a boundary coordinate to overlap
check_overlap_closed(placed_boxes, x, y, z, l, w, h) ==
    \E i \in 1..Len(placed_boxes) :
        LET p_box == placed_boxes[i]
            no_overlap_x == x + l < p_box.x \/ x > p_box.x + p_box.l
            no_overlap_y == y + w < p_box.y \/ y > p_box.y + p_box.w
            no_overlap_z == z + h < p_box.z \/ z > p_box.z + p_box.h
        IN  ~(no_overlap_x \/ no_overlap_y \/ no_overlap_z)

check_overlap(placed_boxes, x, y, z, l, w, h) ==
    \E i \in 1..Len(placed_boxes) :
        LET p_box == placed_boxes[i]
            no_overlap_x == x + l <= p_box.x \/ x >= p_box.x + p_box.l
            no_overlap_y == y + w <= p_box.y \/ y >= p_box.y + p_box.w
            no_overlap_z == z + h <= p_box.z \/ z >= p_box.z + p_box.h
        IN  ~(no_overlap_x \/ no_overlap_y \/ no_overlap_z)

\* anchor_points without the points on top of the placed boxes
anchor_points_no_top(placed_boxes) ==
    {<<0, 0, 0>>}
    \cup { <<placed_boxes[i].x + placed_boxes[i].l, placed_boxes[i].y, placed_boxes[i].z>> :
             i \in 1..Len(placed_boxes) }
    \cup { <<placed_boxes[i].x, placed_boxes[i].y + placed_boxes[i].w, placed_boxes[i].z>> :
             i \in 1..Len(placed_boxes) }

\* the anchor points of a search state, before de-duplication
anchor_points(placed_boxes) ==
    {<<0, 0, 0>>}
    \cup { <<placed_boxes[i].x + placed_boxes[i].l, placed_boxes[i].y, placed_boxes[i].z>> :
             i \in 1..Len(placed_boxes) }
    \cup { <<placed_boxes[i].x, placed_boxes[i].y + placed_boxes[i].w, placed_boxes[i].z>> :
             i \in 1..Len(placed_boxes) }
    \cup { <<placed_boxes[i].x, placed_boxes[i].y, placed_boxes[i].z + placed_boxes[i].h>> :
             i \in 1..Len(placed_boxes) }

\* out_of_bounds without the check of the z axis
out_of_bounds_no_z(container, ax, ay, az, l, w, h) ==
    ax + l > container.l \/ ay + w > container.w

\* "1. Check container bounds": TRUE when the candidate sticks out
out_of_bounds(container, ax, ay, az, l, w, h) ==
    ax + l > container.l \/ ay + w > container.w \/ az + h > container.h

RECURSIVE pack_recursive_helper(_, _, _, _)
\* the two nested loops of pack_recursive_helper from their k-th iteration on:
\* iteration k tries anchor k \div Len(rots) in rotation k % Len(rots)
RECURSIVE place_loop(_, _, _, _, _, _, _)
\* the loops giving up when the first placement that passes the bounds and
\* overlap checks has no completion
RECURSIVE place_loop_no_undo(_, _, _, _, _, _, _)
RECURSIVE pack_no_undo(_, _, _, _)
place_loop_no_undo(boxes_left, container, placed_boxes, order, unique_anchors, rots, k) ==
    IF k >= Len(unique_anchors) * Len(rots) THEN None
    ELSE
      LET a == unique_anchors[(k \div Len(rots)) + 1]
          r == rots[(k % Len(rots)) + 1]
      IN  IF out_of_bounds(container, a[1], a[2], a[3], r[1], r[2], r[3])
               \/ check_overlap(placed_boxes, a[1], a[2], a[3], r[1], r[2], r[3])
            THEN place_loop_no_undo(boxes_left, container, placed_boxes, order,
                                    unique_anchors, rots, k + 1)
            ELSE pack_no_undo(Tail(boxes_left), container,
                     Append(placed_boxes,
                            PlacedBox(Head(boxes_left), a[1], a[2], a[3], r[1], r[2], r[3])),
                     order)

pack_no_undo(boxes_left, container, placed_boxes, order) ==
    IF Len(boxes_left) = 0 THEN Some(placed_boxes)
    ELSE place_loop_no_undo(boxes_left, container, placed_boxes, order,
             sorted_tuples(anchor_points(placed_boxes)),
             set_iter(rotations(<<Head(boxes_left).l, Head(boxes_left).w, Head(boxes_left).h>>),
                      order),
             0)

place_loop(boxes_left, container, placed_boxes, order, unique_anchors, rots, k) ==
    IF k >= Len(unique_anchors) * Len(rots) THEN None
    ELSE
      LET a == unique_anchors[(k \div Len(rots)) + 1]
          r == rots[(k % Len(rots)) + 1]
      IN  IF out_of_bounds(container, a[1], a[2], a[3], r[1], r[2], r[3])
            THEN place_loop(boxes_left, container, placed_boxes, order, unique_anchors, rots, k + 1)
          ELSE IF check_overlap(placed_boxes, a[1], a[2], a[3], r[1], r[2], r[3])
            THEN place_loop(boxes_left, container, placed_boxes, order, unique_anchors, rots, k + 1)
          ELSE
            LET new_placed_box == PlacedBox(Head(boxes_left), a[1], a[2], a[3], r[1], r[2], r[3])
                recursive_result ==
                    pack_recursive_helper(Tail(boxes_left), container,
                                          Append(placed_boxes, new_placed_box), order)
            IN  IF recursive_result.found THEN recursive_result
                ELSE place_loop(boxes_left, container, placed_boxes, order,
                                unique_anchors, rots, k + 1)

\* pack_recursive_helper placing the first box of all as it is given, unrotated
pack_recursive_helper_first_as_given(boxes_left, container, placed_boxes, order) ==
    IF Len(boxes_left) = 0 THEN Some(placed_boxes)
    ELSE
      LET box_to_place == Head(boxes_left)
          dims == <<box_to_place.l, box_to_place.w, box_to_place.h>>
      IN  place_loop(boxes_left, container, placed_boxes, order,
                     sorted_tuples(anchor_points(placed_boxes)),
                     IF Len(placed_boxes) = 0 THEN <<dims>>
                     ELSE set_iter(rotations(dims), order),
                     0)

pack_recursive_helper(boxes_left, container, placed_boxes, order) ==
    IF Len(boxes_left) = 0 THEN Some(placed_boxes)
    ELSE
      LET box_to_place == Head(boxes_left)
          unique_anchors == sorted_tuples(anchor_points(placed_boxes))
          rots == set_iter(rotations(<<box_to_place.l, box_to_place.w, box_to_place.h>>), order)
      IN  place_loop(boxes_left, container, placed_boxes, order, unique_anchors, rots, 0)

\* a descending sort that keeps one box per volume (boxes keyed by volume)
RECURSIVE sorted_one_per_volume(_)
sorted_one_per_volume(boxes) ==
    IF Len(boxes) = 0 THEN <<>>
    ELSE LET i == CHOOSE i \in 1..Len(boxes) :
                    /\ \A j \in 1..Len(boxes) : boxes[j].volume <= boxes[i].volume
                    /\ \A j \in 1..(i - 1) : boxes[j].volume < boxes[i].volume
         IN  <<boxes[i]>> \o
             sorted_one_per_volume(SelectSeq(boxes, LAMBDA b : b.volume # boxes[i].volume))

\* sorted(boxes, key=volume, reverse=True): stable, equal volumes keep their order
RECURSIVE sorted_by_volume_desc(_)
sorted_by_volume_desc(boxes) ==
    IF Len(boxes) = 0 THEN <<>>
    ELSE LET i == CHOOSE i \in 1..Len(boxes) :
                    /\ \A j \in 1..Len(boxes) : boxes[j].volume <= boxes[i].volume
                    /\ \A j \in 1..(i - 1) : boxes[j].volume < boxes[i].volume
         IN  <<boxes[i]>> \o
             sorted_by_volume_desc(SubSeq(boxes, 1, i - 1) \o SubSeq(boxes, i + 1, Len(boxes)))

\* the quick check comparing volumes instead of dimensions
can_fit_by_volume(box, container) == box.volume <= container.volume

\* "Quick check if any single box is too big for the container dimensions"
can_fit_at_all(box, container) ==
    \E r \in rotations(<<box.l, box.w, box.h>>) :
        r[1] <= container.l /\ r[2] <= container.w /\ r[3] <= container.h

\* the loop of lines 94-103: TRUE when it ends without returning None
quick_check(sorted_boxes, container) ==
    \A i \in 1..Len(sorted_boxes) : can_fit_at_all(sorted_boxes[i], container)

check_fit(boxes_to_pack, container, order) ==
    LET sorted_boxes == sorted_by_volume_desc(boxes_to_pack)
    IN  IF ~quick_check(sorted_boxes, container)
          THEN None
          ELSE pack_recursive_helper(sorted_boxes, container, <<>>, order)

\* TRUE when check_fit reaches line 106 and calls pack_recursive_helper
check_fit_searches(boxes_to_pack, container) ==
    quick_check(sorted_by_volume_desc(boxes_to_pack), container)

-----------------------------------------------------------------------------
(* Container generation.                                                   *)

\* list(range(start, stop, step)) for step > 0
RECURSIVE range(_, _, _)
range(start, stop, step) ==
    IF start >= stop THEN <<>> ELSE <<start>> \o range(start + step, stop, step)

\* tuple(sorted([l, w, h]))
sorted_dims(l, w, h) ==
    LET lo == IF l <= w /\ l <= h THEN l ELSE IF w <= h THEN w ELSE h
        hi == IF l >= w /\ l >= h THEN l ELSE IF w >= h THEN w ELSE h
    IN  <<lo, l + w + h - lo - hi, hi>>

\* the innermost loop taking the bound on the sum to be exclusive
RECURSIVE inner_loop_exclusive(_, _, _, _, _)
inner_loop_exclusive(l, w, valid_steps, k, total_sum) ==
    IF k > Len(valid_steps) THEN {}
    ELSE IF l + w + valid_steps[k] < total_sum
      THEN {sorted_dims(l, w, valid_steps[k])}
           \cup inner_loop_exclusive(l, w, valid_steps, k + 1, total_sum)
      ELSE {}

\* the innermost loop (for h in valid_steps) from its k-th iteration on: the
\* tuples it adds to valid_containers before it ends or breaks
RECURSIVE inner_loop(_, _, _, _, _)
inner_loop(l, w, valid_steps, k, total_sum) ==
    IF k > Len(valid_steps) THEN {}
    ELSE IF l + w + valid_steps[k] <= total_sum
      THEN {sorted_dims(l, w, valid_steps[k])}
           \cup inner_loop(l, w, valid_steps, k + 1, total_sum)
      ELSE {}

\* the set valid_containers when the loops have ended
valid_containers(total_sum, max_dim, min_dim, increment) ==
    LET valid_steps == range(min_dim, max_dim + 1, increment)
    IN  UNION { inner_loop(valid_steps[i], valid_steps[j], valid_steps, 1, total_sum) :
                  i \in 1..Len(valid_steps), j \in 1..Len(valid_steps) }

\* generate_containers: the list built from the set, in the set's iteration order
generate_containers(total_sum, max_dim, min_dim, increment, order) ==
    IF increment <= 0 THEN <<>>
    ELSE LET ds == set_iter(valid_containers(total_sum, max_dim, min_dim, increment), order)
         IN  [i \in 1..Len(ds) |-> Container(ds[i][1], ds[i][2], ds[i][3])]

-----------------------------------------------------------------------------
(* Input texts and their parsing.                                          *)

\* The text of a dims entry: empty, a text the pattern of parse_box_string
\* does not match, or a text it matches with the four numbers it captures.
EmptyText == [kind |-> "empty", l |-> 0, w |-> 0, h |-> 0, weight |-> 0]

JunkText == [kind |-> "junk", l |-> 0, w |-> 0, h |-> 0, weight |-> 0]

DimsText(l, w, h, weight) == [kind |-> "dims", l |-> l, w |-> w, h |-> h, weight |-> weight]

\* The text of a rule entry: the digits of an integer, which int() and
\* float() accept; "nan", which float() accepts and int() rejects; or a text
\* both reject with ValueError.
NumberText(n) == [kind |-> "int", val |-> n]

NanText == [kind |-> "nan", val |-> 0]

NotANumber == [kind |-> "junk", val |-> 0]

\* int(text) and float(text) return a value (do not raise ValueError)
int_accepts(text) == text.kind = "int"

float_accepts(text) == text.kind \in { "int", "nan" }

\* the value of float(text): a number, or the NaN
float(text) == [nan |-> text.kind = "nan", val |-> text.val]

\* Python's  n > f  and  n <= f  for an int n and a float f: both are False
\* when f is the NaN
greater_than(n, f) == ~f.nan /\ n > f.val

at_most(n, f) == ~f.nan /\ n <= f.val

\* parse_box_string: None when the pattern does not match, else the Box of
\* the captured numbers with its volume
parse_box_string(text, name) ==
    IF text.kind # "dims" THEN None
    ELSE Some(<<Box(name, text.l, text.w, text.h, text.weight)>>)

-----------------------------------------------------------------------------
(* The combination search.                                                 *)

Message(msg, arg) == [msg |-> msg, arg |-> arg]

\* the loop over box_entries (lines 453-464) from entry i on: the boxes
\* appended to input_boxes, the entries parsed and the errors logged
RECURSIVE parse_entries(_, _)
parse_entries(entries, i) ==
    IF i > Len(entries) THEN [boxes |-> <<>>, parsed |-> <<>>, log |-> <<>>]
    ELSE LET rest == parse_entries(entries, i + 1)
         IN  IF entries[i].kind = "empty" THEN rest
             ELSE LET box == parse_box_string(entries[i], i)
                  IN  IF box.found
                        THEN [rest EXCEPT !.boxes = box.placed \o @, !.parsed = <<i>> \o @]
                        ELSE [rest EXCEPT !.parsed = <<i>> \o @,
                                           !.log = <<Message("parse error", i)>> \o @]

\* itertools.combinations(range(lo, n + 1), k): the increasing index tuples
\* in lexicographic order
RECURSIVE index_combinations(_, _, _)
index_combinations(lo, n, k) ==
    IF k = 0 THEN << <<>> >>
    ELSE IF lo > n THEN <<>>
    ELSE LET with_lo == index_combinations(lo + 1, n, k - 1)
         IN  [i \in 1..Len(with_lo) |-> <<lo>> \o with_lo[i]]
             \o index_combinations(lo + 1, n, k)

\* the combinations the two outer loops enumerate: k = 2 .. len(input_boxes),
\* and for each k itertools.combinations(input_boxes, k)
RECURSIVE all_combinations(_, _)
all_combinations(input_boxes, k) ==
    IF k > Len(input_boxes) THEN <<>>
    ELSE LET idx == index_combinations(1, Len(input_boxes), k)
         IN  [i \in 1..Len(idx) |-> [j \in 1..k |-> input_boxes[idx[i][j]]]]
             \o all_combinations(input_boxes, k + 1)

RECURSIVE sum_weight(_)
sum_weight(boxes) ==
    IF Len(boxes) = 0 THEN 0 ELSE Head(boxes).weight + sum_weight(Tail(boxes))

RECURSIVE sum_volume(_)
sum_volume(boxes) ==
    IF Len(boxes) = 0 THEN 0 ELSE Head(boxes).volume + sum_volume(Tail(boxes))

\* the volume test comparing the first box's volume only
volume_exceeds_first_box(box_combination, container) ==
    Head(box_combination).volume > container.volume

\* lines 483 and 487: TRUE when the container is skipped for the combination
volume_exceeds(box_combination, container) ==
    sum_volume(box_combination) > container.volume

\* lines 480-481: TRUE when the combination is skipped
weight_exceeds(box_combination, max_weight) ==
    greater_than(sum_weight(box_combination), max_weight)

\* one call of check_fit at line 488: its arguments, whether it went on to
\* the search of line 106, and whether it returned a placement (found)
call_of(box_combination, container, found) ==
    [boxes |-> box_combination, container |-> container,
     searched |-> check_fit_searches(box_combination, container),
     found |-> found]

\* the loop over self.containers going on after a fit: it tries every
\* container and keeps the last fit
RECURSIVE container_loop_no_break(_, _, _, _)
container_loop_no_break(box_combination, conts, i, order) ==
    IF i > Len(conts) THEN [calls |-> <<>>, fit |-> None]
    ELSE IF sum_volume(box_combination) > conts[i].volume
      THEN container_loop_no_break(box_combination, conts, i + 1, order)
    ELSE
      LET placed_boxes_list == check_fit(box_combination, conts[i], order)
          rest == container_loop_no_break(box_combination, conts, i + 1, order)
      IN  [calls |-> <<call_of(box_combination, conts[i], placed_boxes_list.found)>> \o rest.calls,
           fit |-> IF rest.fit.found \/ ~placed_boxes_list.found THEN rest.fit
                   ELSE Some([container |-> conts[i], boxes |-> placed_boxes_list.placed])]

\* the loop over self.containers (lines 486-501) from container i on: the
\* check_fit calls it makes and the fit it finds, if any
RECURSIVE container_loop(_, _, _, _)
container_loop(box_combination, conts, i, order) ==
    IF i > Len(conts) THEN [calls |-> <<>>, fit |-> None]
    ELSE IF volume_exceeds(box_combination, conts[i])
      THEN container_loop(box_combination, conts, i + 1, order)
    ELSE
      LET placed_boxes_list == check_fit(box_combination, conts[i], order)
      IN  IF placed_boxes_list.found
            THEN [calls |-> <<call_of(box_combination, conts[i], TRUE)>>,
                  fit |-> Some([container |-> conts[i], boxes |-> placed_boxes_list.placed])]
            ELSE LET rest == container_loop(box_combination, conts, i + 1, order)
                 IN  [rest EXCEPT !.calls = <<call_of(box_combination, conts[i], FALSE)>> \o @]

\* the loops over k and over the combinations (lines 474-501) from the c-th
\* combination on, with the fits found so far
RECURSIVE combination_loop(_, _, _, _, _, _)
combination_loop(combs, c, conts, max_weight, order, fits) ==
    IF c > Len(combs) THEN [fits |-> fits, calls |-> <<>>]
    ELSE IF weight_exceeds(combs[c], max_weight)
      THEN combination_loop(combs, c + 1, conts, max_weight, order, fits)
    ELSE
      LET found == container_loop(combs[c], conts, 1, order)
          new_fits ==
            IF found.fit.found
              THEN Append(fits,
                     [name |-> [fit |-> Len(fits) + 1,
                                box_names |-> [j \in 1..Len(combs[c]) |-> combs[c][j].name],
                                container |-> found.fit.placed.container],
                      container |-> found.fit.placed.container,
                      boxes |-> found.fit.placed.boxes])
              ELSE fits
          rest == combination_loop(combs, c + 1, conts, max_weight, order, new_fits)
      IN  [rest EXCEPT !.calls = found.calls \o @]

\* the solutions of the earlier run left in place
fits_kept(old_fits) == old_fits

\* line 430, self.successful_fits = []
fits_cleared(old_fits) == <<>>

\* run_packing from its entry to its return: the values it leaves in the
\* application's fields, and what it called on the way
run_packing(entries, rules, old_containers, old_fits, order) ==
    LET cleared == [containers |-> old_containers,
                    successful_fits |-> fits_cleared(old_fits),
                    result_text |-> <<Message("starting", 0)>>,
                    parse_calls |-> <<>>, combinations_tried |-> <<>>, fit_calls |-> <<>>]
    IN
    IF ~(int_accepts(rules.total_sum) /\ int_accepts(rules.max_dim)
         /\ int_accepts(rules.min_dim) /\ int_accepts(rules.increment)
         /\ float_accepts(rules.max_weight))
      THEN [cleared EXCEPT !.result_text = @ \o <<Message("invalid rules", 0)>>]
    ELSE
      LET conts == generate_containers(rules.total_sum.val, rules.max_dim.val,
                                       rules.min_dim.val, rules.increment.val, order)
      IN
      IF Len(conts) = 0
        THEN [cleared EXCEPT !.containers = conts,
                             !.result_text = @ \o <<Message("no containers", 0)>>]
      ELSE
        LET parsed == parse_entries(entries, 1)
            input_boxes == parsed.boxes
        IN
        IF Len(input_boxes) < 2
          THEN [cleared EXCEPT !.containers = conts,
                               !.parse_calls = parsed.parsed,
                               !.result_text = @ \o parsed.log \o <<Message("too few boxes", 0)>>]
        ELSE
          LET combs == all_combinations(input_boxes, 2)
              done == combination_loop(combs, 1, conts, float(rules.max_weight), order,
                                       cleared.successful_fits)
          IN  [containers |-> conts,
               successful_fits |-> done.fits,
               result_text |-> <<Message("starting", 0)>> \o parsed.log
                               \o <<Message("complete", Len(done.fits))>>,
               parse_calls |-> parsed.parsed,
               combinations_tried |-> combs,
               fit_calls |-> done.calls]

-----------------------------------------------------------------------------
(* check_fit applied to bounded inputs.                                    *)

\* the shapes of the boxes handed to check_fit: a plate, a box with three
\* different sides, a cube
ItemShapes == { <<1, 2, 2>>, <<1, 2, 3>>, <<2, 2, 2>> }

\* shapes of height 1: a stick, a square plate
FlatShapes == { <<1, 1, 3>>, <<1, 2, 2>> }

IterOrders == 0..(NumIterOrders - 1)

\* the lists of n boxes with shapes from a set, named by position
BoxLists(shapes, n) ==
    { [i \in 1..n |-> Box(i, f[i][1], f[i][2], f[i][3], 1)] : f \in [1..n -> shapes] }

FitInit ==
    /\ fit_pc = "idle"
    /\ fit_boxes = <<>>
    /\ fit_container = Container(1, 1, 1)
    /\ fit_order = 0
    /\ fit_result = None

GenInit ==
    /\ gen_pc = "idle"
    /\ gen_args = [total_sum |-> 0, max_dim |-> 0, min_dim |-> 0, increment |-> 0]
    /\ gen_order = 0
    /\ gen_result = <<>>

CallCheckFit(boxes, container, order) ==
    /\ fit_pc' = "done"
    /\ fit_boxes' = boxes
    /\ fit_container' = container
    /\ fit_order' = order
    /\ fit_result' = check_fit(boxes, container, order)
    /\ UNCHANGED <<ovlvars, genvars, appvars>>

\* check_fit on any list of boxes in any small container
FitNext ==
    /\ fit_pc = "idle"
    /\ \E n \in 0..MaxItems : \E boxes \in BoxLists(ItemShapes, n) :
         \E l \in 1..MaxContDim, w \in 1..MaxContDim, h \in 1..MaxContDim :
           \E order \in IterOrders :
             CallCheckFit(boxes, Container(l, w, h), order)

\* check_fit on flat boxes in flat containers
FlatNext ==
    /\ fit_pc = "idle"
    /\ \E n \in 0..MaxFlatItems : \E boxes \in BoxLists(FlatShapes, n) :
         \E w \in 1..MaxFlatDim, h \in 1..MaxFlatDim : \E order \in IterOrders :
           CallCheckFit(boxes, Container(1, w, h), order)

-----------------------------------------------------------------------------
(* check_overlap applied to bounded inputs.                                *)

OvlInit ==
    /\ ovl_pc = "idle"
    /\ ovl_placed_boxes = <<>>
    /\ ovl_candidate = [x |-> 0, y |-> 0, z |-> 0, l |-> 1, w |-> 1, h |-> 1]
    /\ ovl_result = FALSE

\* the box the placed boxes carry; check_overlap does not read it
SomeBox == Box(1, 1, 1, 1, 1)

\* the candidate's l, w and h
CandidateSizes == { 1, 2 }

\* where the candidate is put: the placed boxes lie on every side of it
CandidateOrigin == <<2, 2, 2>>

\* a second entry of placed_boxes: away from the candidate, on it, or below
\* it and touching
Companions ==
    { PlacedBox(SomeBox, 0, 0, 0, 1, 1, 1), PlacedBox(SomeBox, 2, 2, 2, 1, 1, 1),
      PlacedBox(SomeBox, 2, 2, 1, 1, 1, 1) }

CallCheckOverlap(placed_boxes, x, y, z, l, w, h) ==
    /\ ovl_pc' = "done"
    /\ ovl_placed_boxes' = placed_boxes
    /\ ovl_candidate' = [x |-> x, y |-> y, z |-> z, l |-> l, w |-> w, h |-> h]
    /\ ovl_result' = check_overlap(placed_boxes, x, y, z, l, w, h)
    /\ UNCHANGED <<fitvars, genvars, appvars>>

\* check_overlap on no placed box, on any one placed box, and on a placed box
\* with a companion before or after it in the list
OvlNext ==
    /\ ovl_pc = "idle"
    /\ \E l \in CandidateSizes, w \in CandidateSizes, h \in CandidateSizes :
         \/ CallCheckOverlap(<<>>, CandidateOrigin[1], CandidateOrigin[2], CandidateOrigin[3],
                             l, w, h)
         \/ \E px \in 0..MaxPlacedCoord, py \in 0..MaxPlacedCoord, pz \in 0..MaxPlacedCoord :
              \E pl \in 1..MaxPlacedSize, pw \in 1..MaxPlacedSize, ph \in 1..MaxPlacedSize :
                LET p == PlacedBox(SomeBox, px, py, pz, pl, pw, ph)
                IN  \E placed_boxes \in { <<p>> } \cup { <<p, q>> : q \in Companions }
                                         \cup { <<q, p>> : q \in Companions } :
                      CallCheckOverlap(placed_boxes, CandidateOrigin[1], CandidateOrigin[2],
                                       CandidateOrigin[3], l, w, h)

\* the items and the container of the placement scenario: a cube of side 100
\* and a cube of side 200 in a cube of side 300
ScenarioBoxes == << Box(1, 100, 100, 100, 1), Box(2, 200, 200, 200, 1) >>

ScenarioContainer == Container(300, 300, 300)

\* check_fit on the boxes of the scenario, in either order
ScenarioNext ==
    /\ fit_pc = "idle"
    /\ \E order \in IterOrders :
         \E boxes \in { ScenarioBoxes, <<ScenarioBoxes[2], ScenarioBoxes[1]>> } :
           CallCheckFit(boxes, ScenarioContainer, order)

\* shapes of height 1: a unit square, a stick, a square plate
OrderShapes == { <<1, 1, 1>>, <<1, 1, 3>>, <<1, 2, 2>> }

\* pack_recursive_helper started with no placed boxes on a list as it is given
CallPackRecursiveHelper(boxes, container, order) ==
    /\ fit_pc' = "helper done"
    /\ fit_boxes' = boxes
    /\ fit_container' = container
    /\ fit_order' = order
    /\ fit_result' = pack_recursive_helper(boxes, container, <<>>, order)
    /\ UNCHANGED <<ovlvars, genvars, appvars>>

\* pack_recursive_helper on flat boxes, in every order, in flat containers
OrderNext ==
    /\ fit_pc = "idle"
    /\ \E n \in 0..MaxItems : \E boxes \in BoxLists(OrderShapes, n) :
         \E w \in 1..MaxFlatDim, h \in 1..MaxFlatDim : \E order \in IterOrders :
           CallPackRecursiveHelper(boxes, Container(1, w, h), order)

SearchNext == FitNext \/ FlatNext \/ ScenarioNext

-----------------------------------------------------------------------------
(* Geometry the properties are stated in.                                  *)

Max(a, b) == IF a > b THEN a ELSE b

Min(a, b) == IF a < b THEN a ELSE b

\* the half-open intervals [a1, a2) and [b1, b2) share a positive length
IntervalsShare(a1, a2, b1, b2) == Max(a1, b1) < Min(a2, b2)

\* two placed boxes share a positive volume
BoxesIntersect(p, q) ==
    /\ IntervalsShare(p.x, p.x + p.l, q.x, q.x + q.l)
    /\ IntervalsShare(p.y, p.y + p.w, q.y, q.y + q.w)
    /\ IntervalsShare(p.z, p.z + p.h, q.z, q.z + q.h)

\* a placed box lies within the container
InsideContainer(p, c) ==
    /\ p.x >= 0 /\ p.y >= 0 /\ p.z >= 0
    /\ p.x + p.l <= c.l /\ p.y + p.w <= c.w /\ p.z + p.h <= c.h

\* two placed boxes touch along a face: they meet in a plane and do not intersect
Touching(p, q) ==
    /\ ~BoxesIntersect(p, q)
    /\ \/ p.x + p.l = q.x \/ q.x + q.l = p.x
       \/ p.y + p.w = q.y \/ q.y + q.w = p.y
       \/ p.z + p.h = q.z \/ q.z + q.h = p.z

\* some assignment of a rotation and an integer origin to every box of the
\* list puts them all inside the container with no two intersecting
RECURSIVE CanPlaceAll(_, _, _)
CanPlaceAll(boxes, c, placed) ==
    IF Len(boxes) = 0 THEN TRUE
    ELSE LET b == Head(boxes)
         IN  \E r \in rotations(<<b.l, b.w, b.h>>) :
             \E x \in 0..(c.l - r[1]), y \in 0..(c.w - r[2]), z \in 0..(c.h - r[3]) :
                LET q == PlacedBox(b, x, y, z, r[1], r[2], r[3])
                IN  /\ \A p \in placed : ~BoxesIntersect(p, q)
                    /\ CanPlaceAll(Tail(boxes), c, placed \cup {q})

Packable(boxes, c) == CanPlaceAll(boxes, c, {})

-----------------------------------------------------------------------------
(* Properties of check_fit.                                                *)

\* C1: no two distinct entries of a placement list returned by check_fit
\* intersect with positive extent on all three axes.
C1_NoOverlap ==
    (fit_pc = "done" /\ fit_result.found) =>
        \A i, j \in 1..Len(fit_result.placed) :
            i # j => ~BoxesIntersect(fit_result.placed[i], fit_result.placed[j])

\* check_fit returned three boxes, two of which touch along a face
C1_Witness ==
    /\ fit_pc = "done" /\ fit_result.found
    /\ Len(fit_result.placed) = 3
    /\ Touching(fit_result.placed[1], fit_result.placed[2])

\* C2: every entry of a placement list returned by check_fit has a
\* non-negative origin and ends, per axis, within the container.
C2_Containment ==
    (fit_pc = "done" /\ fit_result.found) =>
        \A i \in 1..Len(fit_result.placed) :
            InsideContainer(fit_result.placed[i], fit_container)

\* check_fit returned a placement one of whose boxes ends at the container's
\* far face on the z axis, away from the origin
C2_Witness ==
    /\ fit_pc = "done" /\ fit_result.found
    /\ \E i \in 1..Len(fit_result.placed) :
          /\ fit_result.placed[i].z > 0
          /\ fit_result.placed[i].z + fit_result.placed[i].h = fit_container.h

\* C3: a list returned by check_fit has exactly one entry per input box
\* (boxes told apart by identity), each with a permutation of that box's
\* dimensions; no partial placement is returned.
C3_CompletePlacement ==
    (fit_pc = "done" /\ fit_result.found) =>
        /\ Len(fit_result.placed) = Len(fit_boxes)
        /\ \A i \in 1..Len(fit_boxes) :
              Cardinality({ j \in 1..Len(fit_result.placed) :
                              fit_result.placed[j].box = fit_boxes[i] }) = 1
        /\ \A j \in 1..Len(fit_result.placed) :
              LET p == fit_result.placed[j]
              IN  <<p.l, p.w, p.h>> \in rotations(<<p.box.l, p.box.w, p.box.h>>)

\* check_fit returned a placement of three boxes, two of them with the same
\* dimensions and one placed in a rotation other than its own
C3_Witness ==
    /\ fit_pc = "done" /\ fit_result.found
    /\ Len(fit_boxes) = 3
    /\ \E i, j \in 1..3 : i # j /\ fit_boxes[i].l = fit_boxes[j].l
          /\ fit_boxes[i].w = fit_boxes[j].w /\ fit_boxes[i].h = fit_boxes[j].h
    /\ \E j \in 1..3 : LET p == fit_result.placed[j]
                       IN  <<p.l, p.w, p.h>> # <<p.box.l, p.box.w, p.box.h>>

\* the container with its dimensions in ascending order, as generate_containers
\* stores it
SortedContainer(c) ==
    LET d == sorted_tuples({<<c.l, 1, 0>>, <<c.w, 2, 0>>, <<c.h, 3, 0>>})
    IN  Container(d[1][1], d[2][1], d[3][1])

\* C9: check_fit finds a placement in a container if and only if it finds one
\* in the same container with its dimensions sorted (l <= w <= h), whatever
\* axis permutation of the dimensions the container has.
C9_CanonicalContainer ==
    fit_pc = "done" =>
        fit_result.found =
            check_fit(fit_boxes, SortedContainer(fit_container), fit_order).found

\* check_fit placed two or more boxes in a container that is not sorted, with
\* a box on top of another
C9_Witness ==
    /\ fit_pc = "done" /\ fit_result.found
    /\ Len(fit_boxes) >= 2
    /\ fit_container.l > fit_container.h
    /\ \E i \in 1..Len(fit_result.placed) : fit_result.placed[i].z > 0

\* the container is not sorted and check_fit found no placement although the
\* boxes' volume is within the container's and every box fits alone
C9_WitnessNone ==
    /\ fit_pc = "done" /\ ~fit_result.found
    /\ fit_container.l > fit_container.w
    /\ \A i \in 1..Len(fit_boxes) : can_fit_at_all(fit_boxes[i], fit_container)

\* C6 as claimed: check_fit returns a placement exactly when the boxes can be
\* packed, that is, when some assignment of an axis permutation and an integer
\* origin to every box keeps all inside the container and no two intersecting.
C6_Decides ==
    fit_pc = "done" => (fit_result.found <=> Packable(fit_boxes, fit_container))

\* C6, amended: check_fit returns a placement only when the boxes can be
\* packed, and for at most two boxes it returns one whenever they can be.
C6_SoundAndCompleteForTwo ==
    fit_pc = "done" =>
        /\ fit_result.found => Packable(fit_boxes, fit_container)
        /\ (Len(fit_boxes) <= 2 /\ ~fit_result.found) =>
              ~Packable(fit_boxes, fit_container)

\* check_fit returned a placement of four boxes
C6_Witness ==
    /\ fit_pc = "done" /\ fit_result.found
    /\ Len(fit_boxes) = 4

\* check_fit returned None for two boxes each of which fits the container
C6_WitnessNone ==
    /\ fit_pc = "done" /\ ~fit_result.found
    /\ Len(fit_boxes) = 2
    /\ \A i \in 1..2 : can_fit_at_all(fit_boxes[i], fit_container)

-----------------------------------------------------------------------------
(* generate_containers applied to bounded inputs.                          *)

\* the rule entries' default values
DefaultTotalSum == 900

DefaultMaxDim == 600

DefaultMinDim == 50

DefaultIncrement == 50

GenArgs(total_sum, max_dim, min_dim, increment) ==
    [total_sum |-> total_sum, max_dim |-> max_dim, min_dim |-> min_dim,
     increment |-> increment]

CallGenerateContainers(a, order) ==
    /\ gen_pc' = "done"
    /\ gen_args' = a
    /\ gen_order' = order
    /\ gen_result' = generate_containers(a.total_sum, a.max_dim, a.min_dim, a.increment, order)
    /\ UNCHANGED <<fitvars, ovlvars, appvars>>

\* generate_containers on small rules, and on the default rules
GenNext ==
    /\ gen_pc = "idle"
    /\ \E order \in IterOrders :
         \/ \E total_sum \in 0..MaxTotalSum, max_dim \in 0..MaxMaxDim,
               min_dim \in 0..MaxMinDim, increment \in -1..MaxIncrement :
              CallGenerateContainers(GenArgs(total_sum, max_dim, min_dim, increment), order)
         \/ CallGenerateContainers(GenArgs(DefaultTotalSum, DefaultMaxDim,
                                           DefaultMinDim, DefaultIncrement), order)

-----------------------------------------------------------------------------
(* Properties of generate_containers.                                      *)

\* the values min_dim, min_dim + increment, ... that do not exceed max_dim
Progression(min_dim, max_dim, increment) ==
    { d \in min_dim..max_dim : (d - min_dim) % increment = 0 }

\* the admissible triples in ascending order
AdmissibleSorted(a) ==
    LET P == Progression(a.min_dim, a.max_dim, a.increment)
    IN  { <<l, w, h>> \in P \X P \X P : l <= w /\ w <= h /\ l + w + h <= a.total_sum }

C8_MultiplesOfIncrement ==
    (gen_pc = "done" /\ gen_args.increment > 0) =>
        \A i \in 1..Len(gen_result) :
            /\ gen_result[i].l % gen_args.increment = 0
            /\ gen_result[i].w % gen_args.increment = 0
            /\ gen_result[i].h % gen_args.increment = 0

-----------------------------------------------------------------------------
(* The application: the user edits the entries and presses "Find Fit".     *)

\* what the user types into a dims entry
BoxTexts == { EmptyText, JunkText, DimsText(1, 1, 2, 1), DimsText(2, 2, 2, 2) }

\* what the user types into each rule entry
RuleTexts ==
    [total_sum  |-> { NumberText(2), NumberText(7) },
     max_dim    |-> { NumberText(3) },
     min_dim    |-> { NumberText(1) },
     increment  |-> { NumberText(0), NumberText(1) },
     max_weight |-> { NotANumber, NanText, NumberText(3) }]

RuleNames == { "total_sum", "max_dim", "min_dim", "increment", "max_weight" }

\* The application after construction, with the entries as load_state found
\* them saved: two boxes, and rules that allow containers up to 3 a side.
AppInit ==
    /\ box_entries = [i \in 1..NumEntries |->
                        IF i = 1 THEN DimsText(1, 1, 2, 1)
                        ELSE IF i = 2 THEN DimsText(2, 2, 2, 2) ELSE EmptyText]
    /\ rule_entries = [total_sum |-> NumberText(7), max_dim |-> NumberText(3),
                       min_dim |-> NumberText(1), increment |-> NumberText(1),
                       max_weight |-> NumberText(3)]
    /\ containers = <<>>
    /\ successful_fits = <<>>
    /\ result_text = <<>>
    /\ app_pc = "ready"
    /\ run_order = 0
    /\ fits_at_entry = 0
    /\ parse_calls = <<>>
    /\ combinations_tried = <<>>
    /\ fit_calls = <<>>

\* an edit ends the state in which run_packing has just returned
ClearTrace ==
    /\ app_pc' = "ready"
    /\ run_order' = 0
    /\ fits_at_entry' = 0
    /\ parse_calls' = <<>>
    /\ combinations_tried' = <<>>
    /\ fit_calls' = <<>>

\* the user replaces the text of dims entry i
EditBoxEntry(i, text) ==
    /\ box_entries[i] # text
    /\ box_entries' = [box_entries EXCEPT ![i] = text]
    /\ UNCHANGED <<rule_entries, containers, successful_fits, result_text>>
    /\ ClearTrace
    /\ UNCHANGED <<fitvars, ovlvars, genvars>>

\* the user replaces the text of a rule entry
EditRuleEntry(rule, text) ==
    /\ rule_entries[rule] # text
    /\ rule_entries' = [rule_entries EXCEPT ![rule] = text]
    /\ UNCHANGED <<box_entries, containers, successful_fits, result_text>>
    /\ ClearTrace
    /\ UNCHANGED <<fitvars, ovlvars, genvars>>

\* the user presses "Find Fit": run_packing, from entry to return
RunPacking(order) ==
    LET run == run_packing(box_entries, rule_entries, containers, successful_fits, order)
    IN  /\ containers' = run.containers
        /\ successful_fits' = run.successful_fits
        /\ result_text' = run.result_text
        /\ app_pc' = "returned"
        /\ run_order' = order
        /\ fits_at_entry' = Len(successful_fits)
        /\ parse_calls' = run.parse_calls
        /\ combinations_tried' = run.combinations_tried
        /\ fit_calls' = run.fit_calls
        /\ UNCHANGED <<box_entries, rule_entries>>
        /\ UNCHANGED <<fitvars, ovlvars, genvars>>

Next ==
    \/ \E i \in 1..NumEntries : \E text \in BoxTexts : EditBoxEntry(i, text)
    \/ \E rule \in RuleNames : \E text \in RuleTexts[rule] : EditRuleEntry(rule, text)
    \/ \E order \in IterOrders : RunPacking(order)

Init == FitInit /\ OvlInit /\ GenInit /\ AppInit

Spec == Init /\ [][Next]_vars

\* check_fit alone, on any list of boxes in any small container
SpecFit == Init /\ [][FitNext]_vars

\* check_fit alone, on flat boxes in flat containers
SpecFlat == Init /\ [][FlatNext]_vars

\* generate_containers alone
\* The same application with a box too long for every container of the
\* default rules of AppInit; the user edits the dims entries only.
LongTexts == { EmptyText, DimsText(1, 1, 2, 1), DimsText(1, 1, 4, 1) }

LongNext ==
    \/ \E i \in 1..NumEntries : \E text \in LongTexts : EditBoxEntry(i, text)
    \/ \E order \in IterOrders : RunPacking(order)

SpecLong == Init /\ [][LongNext]_vars

SpecOvl == Init /\ [][OvlNext]_vars

SpecSearch == Init /\ [][SearchNext]_vars

SpecOrder == Init /\ [][OrderNext]_vars

SpecGen == Init /\ [][GenNext]_vars

-----------------------------------------------------------------------------
(* Properties of run_packing.                                              *)

\* the boxes of a solution, and their summed weight and volume
RECURSIVE PlacedWeight(_)
PlacedWeight(placed) ==
    IF Len(placed) = 0 THEN 0 ELSE Head(placed).box.weight + PlacedWeight(Tail(placed))

RECURSIVE PlacedVolume(_)
PlacedVolume(placed) ==
    IF Len(placed) = 0 THEN 0
    ELSE Head(placed).box.l * Head(placed).box.w * Head(placed).box.h
         + PlacedVolume(Tail(placed))

RECURSIVE ListWeight(_)
ListWeight(boxes) ==
    IF Len(boxes) = 0 THEN 0 ELSE Head(boxes).weight + ListWeight(Tail(boxes))

\* the names of the boxes of a list or of a placement, as a set
BoxNames(boxes) == { boxes[j].name : j \in 1..Len(boxes) }

PlacedNames(placed) == { placed[j].box.name : j \in 1..Len(placed) }

\* run_packing has just returned after enumerating the combinations
RunComplete ==
    /\ app_pc = "returned"
    /\ result_text[Len(result_text)].msg = "complete"

\* the weight limit of the run that has just returned
MaxWeight == float(rule_entries.max_weight)

\* C4: after run_packing every solution in successful_fits is for a subset
\* whose summed weight is at most max_weight (equality allowed), and a
\* combination whose weight exceeds max_weight is never handed to check_fit
\* and has no solution.
C4_WeightInvariant ==
    RunComplete =>
        /\ \A s \in 1..Len(successful_fits) :
              at_most(PlacedWeight(successful_fits[s].boxes), MaxWeight)
        /\ \A c \in 1..Len(combinations_tried) :
              greater_than(ListWeight(combinations_tried[c]), MaxWeight) =>
                /\ \A f \in 1..Len(fit_calls) : fit_calls[f].boxes # combinations_tried[c]
                /\ \A s \in 1..Len(successful_fits) :
                      PlacedNames(successful_fits[s].boxes) # BoxNames(combinations_tried[c])

\* The weight limit as the code keeps it: the same, for every max_weight
\* other than the NaN.
WeightLimitOfNumbers ==
    ~MaxWeight.nan => C4_WeightInvariant

\* with max_weight a number, a run has returned a solution whose weight
\* equals max_weight, and has skipped a combination too heavy for max_weight
\* that check_fit can place in one of the generated containers
WeightLimitOfNumbers_Reached ==
    /\ RunComplete
    /\ ~MaxWeight.nan
    /\ \E s \in 1..Len(successful_fits) :
          PlacedWeight(successful_fits[s].boxes) = MaxWeight.val
    /\ \E c \in 1..Len(combinations_tried) :
          /\ greater_than(ListWeight(combinations_tried[c]), MaxWeight)
          /\ \E i \in 1..Len(containers) :
                check_fit(combinations_tried[c], containers[i], run_order).found

\* C5: run_packing never calls check_fit for a combination whose total volume
\* exceeds the container's volume, and every solution's container has a
\* volume of at least the summed volume of the solution's boxes.
C5_VolumePrefilter ==
    app_pc = "returned" =>
        /\ \A f \in 1..Len(fit_calls) :
              sum_volume(fit_calls[f].boxes) <= fit_calls[f].container.volume
        /\ \A s \in 1..Len(successful_fits) :
              successful_fits[s].container.volume >= PlacedVolume(successful_fits[s].boxes)

\* a run has returned a solution although some generated container is too
\* small in volume for that solution's boxes, and that container was not tried
C5_Witness ==
    /\ RunComplete
    /\ \E s \in 1..Len(successful_fits) : \E i \in 1..Len(containers) :
          /\ containers[i].volume < PlacedVolume(successful_fits[s].boxes)
          /\ \A f \in 1..Len(fit_calls) :
                PlacedNames(successful_fits[s].boxes) = BoxNames(fit_calls[f].boxes)
                    => fit_calls[f].container # containers[i]

\* int() and float() accept the rule entries
RulesNumeric ==
    /\ int_accepts(rule_entries.total_sum) /\ int_accepts(rule_entries.max_dim)
    /\ int_accepts(rule_entries.min_dim) /\ int_accepts(rule_entries.increment)
    /\ float_accepts(rule_entries.max_weight)

\* the rules as generate_containers receives them
RuleArgs ==
    GenArgs(rule_entries.total_sum.val, rule_entries.max_dim.val,
            rule_entries.min_dim.val, rule_entries.increment.val)

\* no container can be generated: increment <= 0, or no admissible triple
NoContainerPossible ==
    RuleArgs.increment <= 0 \/ AdmissibleSorted(RuleArgs) = {}

\* the dims entries that hold a valid item
ValidEntries == { i \in 1..NumEntries : box_entries[i].kind = "dims" }

\* C10: when run_packing returns with the rule entries not all numeric, with
\* no container generated (increment <= 0, or no admissible triple: then
\* generate_containers returned an empty list) or with fewer than two valid
\* items, it has enumerated no combination, has not called check_fit and
\* leaves successful_fits empty; in the first two cases it has parsed no item.
C10_PreconditionsAbort ==
    app_pc = "returned" =>
        /\ (RulesNumeric /\ NoContainerPossible) => containers = <<>>
        /\ (~RulesNumeric \/ NoContainerPossible) => parse_calls = <<>>
        /\ (~RulesNumeric \/ NoContainerPossible \/ Cardinality(ValidEntries) < 2) =>
              /\ combinations_tried = <<>>
              /\ fit_calls = <<>>
              /\ successful_fits = <<>>

\* a run that started with solutions in successful_fits has returned on a
\* failed precondition
C10_Witness ==
    /\ app_pc = "returned"
    /\ fits_at_entry > 0
    /\ ~RulesNumeric \/ NoContainerPossible \/ Cardinality(ValidEntries) < 2
    /\ successful_fits = <<>>

-----------------------------------------------------------------------------
(* Properties of the infeasible item.                                      *)

\* the ways to assign the three axes of a box to the three axes of a container
AxisPermutations == { p \in [1..3 -> 1..3] : \A i, j \in 1..3 : i # j => p[i] # p[j] }

\* no axis permutation of the box is within the container's dimensions
FitsInNoOrientation(box, container) ==
    LET d == <<box.l, box.w, box.h>>
    IN  \A p \in AxisPermutations :
          ~(d[p[1]] <= container.l /\ d[p[2]] <= container.w /\ d[p[3]] <= container.h)

\* the valid dims entries whose box fits no generated container in any orientation
InfeasibleEntries ==
    { i \in ValidEntries :
        \A c \in 1..Len(containers) :
          FitsInNoOrientation(parse_box_string(box_entries[i], i).placed[1], containers[c]) }

\* C11: a check_fit call of run_packing with a box that fits its container in
\* no orientation returns None without calling pack_recursive_helper; a box
\* that fits no generated container in any orientation is in no solution; and
\* the solutions are those of the same run with that box's entry left empty.
C11_InfeasibleItem ==
    app_pc = "returned" =>
        /\ \A f \in 1..Len(fit_calls) :
              (\E j \in 1..Len(fit_calls[f].boxes) :
                   FitsInNoOrientation(fit_calls[f].boxes[j], fit_calls[f].container))
                => ~fit_calls[f].found /\ ~fit_calls[f].searched
        /\ \A i \in InfeasibleEntries :
              /\ \A s \in 1..Len(successful_fits) :
                    i \notin PlacedNames(successful_fits[s].boxes)
              /\ successful_fits =
                    run_packing([box_entries EXCEPT ![i] = EmptyText], rule_entries,
                                containers, <<>>, run_order).successful_fits

\* a run with a box that fits no container has called check_fit with it, has
\* got None without a search, and has afterwards found a solution for a
\* combination without that box
C11_Witness ==
    /\ RunComplete
    /\ \E i \in InfeasibleEntries :
          /\ \E f \in 1..Len(fit_calls) :
                /\ i \in BoxNames(fit_calls[f].boxes)
                /\ ~fit_calls[f].found /\ ~fit_calls[f].searched
                /\ \E g \in (f + 1)..Len(fit_calls) :
                      /\ i \notin BoxNames(fit_calls[g].boxes)
                      /\ fit_calls[g].found
          /\ \E s \in 1..Len(successful_fits) :
                i \notin PlacedNames(successful_fits[s].boxes)

-----------------------------------------------------------------------------
(* Properties of check_overlap.                                            *)

\* the candidate of the check_overlap call as a placed box
Candidate ==
    PlacedBox(SomeBox, ovl_candidate.x, ovl_candidate.y, ovl_candidate.z,
              ovl_candidate.l, ovl_candidate.w, ovl_candidate.h)

\* two placed boxes meet in a face, an edge or a corner: their extents share
\* a point on every axis, and a positive length on not all three
OnlyTouches(p, q) ==
    /\ Max(p.x, q.x) <= Min(p.x + p.l, q.x + q.l)
    /\ Max(p.y, q.y) <= Min(p.y + p.w, q.y + q.w)
    /\ Max(p.z, q.z) <= Min(p.z + p.h, q.z + q.h)
    /\ ~BoxesIntersect(p, q)

\* C12: check_overlap returns True exactly when some placed box shares a
\* positive length with the candidate on all three axes; a candidate that
\* only touches the placed boxes (equal boundary coordinate) gets False.
C12_OverlapIff ==
    ovl_pc = "done" =>
        /\ ovl_result <=>
              \E i \in 1..Len(ovl_placed_boxes) : BoxesIntersect(ovl_placed_boxes[i], Candidate)
        /\ (\A i \in 1..Len(ovl_placed_boxes) : OnlyTouches(ovl_placed_boxes[i], Candidate))
              => ~ovl_result

\* check_overlap has returned False for a candidate that touches both of two
\* placed boxes
C12_Witness ==
    /\ ovl_pc = "done"
    /\ Len(ovl_placed_boxes) = 2
    /\ \A i \in 1..2 : OnlyTouches(ovl_placed_boxes[i], Candidate)
    /\ ~ovl_result

\* check_overlap has returned True for a candidate that intersects the first
\* of two placed boxes and not the second
C12_WitnessTrue ==
    /\ ovl_pc = "done"
    /\ Len(ovl_placed_boxes) = 2
    /\ BoxesIntersect(ovl_placed_boxes[1], Candidate)
    /\ ~BoxesIntersect(ovl_placed_boxes[2], Candidate)
    /\ ovl_result

-----------------------------------------------------------------------------
(* Properties of the backtracking search.                                  *)

\* the anchor points: the origin, and for each placed box the three corners
\* next to it along x, along y and along z
AnchorsOf(placed) ==
    { <<0, 0, 0>> } \cup
    UNION { { <<placed[i].x + placed[i].l, placed[i].y, placed[i].z>>,
              <<placed[i].x, placed[i].y + placed[i].w, placed[i].z>>,
              <<placed[i].x, placed[i].y, placed[i].z + placed[i].h>> } :
            i \in 1..Len(placed) }

\* the boxes can be placed one by one, in the order of the list, each at an
\* anchor point in one of its axis permutations, inside the container and
\* intersecting no box placed before
RECURSIVE AnchorPlaceable(_, _, _)
AnchorPlaceable(boxes, c, placed) ==
    IF Len(boxes) = 0 THEN TRUE
    ELSE LET b == Head(boxes)
             d == <<b.l, b.w, b.h>>
         IN  \E a \in AnchorsOf(placed) : \E p \in AxisPermutations :
               LET q == PlacedBox(b, a[1], a[2], a[3], d[p[1]], d[p[2]], d[p[3]])
               IN  /\ InsideContainer(q, c)
                   /\ \A i \in 1..Len(placed) : ~BoxesIntersect(placed[i], q)
                   /\ AnchorPlaceable(Tail(boxes), c, Append(placed, q))

\* the search that gives up at the first dead end, on the list check_fit sorts
FirstChoicesOnly(boxes, c, order) ==
    pack_no_undo(sorted_by_volume_desc(boxes), c, <<>>, order)

\* C13: check_fit returns a placement exactly when the boxes, in the order
\* its descending-volume sort puts them, can be placed one by one at anchor
\* points passing the bounds and overlap checks; it returns None only when no
\* such sequence of choices exists.  The cubes of side 100 and 200 get a
\* placement in the cube of side 300.
C13_ExhaustiveOverAnchors ==
    fit_pc = "done" =>
        /\ fit_result.found <=>
              AnchorPlaceable(sorted_by_volume_desc(fit_boxes), fit_container, <<>>)
        /\ (fit_container = ScenarioContainer /\ Len(fit_boxes) = 2) => fit_result.found

\* check_fit has returned a placement for boxes whose first choices of anchor
\* and rotation lead to a dead end: a tentative placement was undone
C13_Witness ==
    /\ fit_pc = "done"
    /\ fit_result.found
    /\ ~FirstChoicesOnly(fit_boxes, fit_container, fit_order).found

\* check_fit has placed the two cubes of the scenario
C13_WitnessScenario ==
    /\ fit_pc = "done"
    /\ fit_boxes = ScenarioBoxes /\ fit_container = ScenarioContainer
    /\ fit_result.found

\* check_fit has returned None after a search: every box fits the container
\* on its own and the volumes add up to no more than the container's
C13_WitnessNone ==
    /\ fit_pc = "done"
    /\ ~fit_result.found
    /\ check_fit_searches(fit_boxes, fit_container)
    /\ sum_volume(fit_boxes) <= fit_container.volume

-----------------------------------------------------------------------------
(* Properties of the processing order.                                     *)

\* the orderings of a list
Orderings(boxes) ==
    { [i \in 1..Len(boxes) |-> boxes[p[i]]] :
        p \in { f \in [1..Len(boxes) -> 1..Len(boxes)] :
                  \A i, j \in 1..Len(boxes) : i # j => f[i] # f[j] } }

\* pack_recursive_helper, started with no placed boxes, finds a placement for
\* the list in this order
FindsPlacement(boxes) ==
    pack_recursive_helper(boxes, fit_container, <<>>, fit_order).found

\* C14 as claimed: whether pack_recursive_helper, started with no placed
\* boxes, finds a placement is the same for every ordering of the list.
C14_OrderIrrelevant ==
    fit_pc = "helper done" =>
        \A boxes \in Orderings(fit_boxes) : FindsPlacement(boxes) <=> fit_result.found

\* C14, amended: for a list of at most two boxes, whether pack_recursive_helper,
\* started with no placed boxes, finds a placement is the same for every
\* ordering of the list; and in whatever order it is given a list, a
\* placement it finds puts all boxes in the container with no two intersecting.
C14_OrderIrrelevantForTwo ==
    fit_pc = "helper done" =>
        /\ Len(fit_boxes) <= 2 =>
              \A boxes \in Orderings(fit_boxes) : FindsPlacement(boxes) <=> fit_result.found
        /\ fit_result.found =>
              /\ Len(fit_result.placed) = Len(fit_boxes)
              /\ \A i \in 1..Len(fit_result.placed) :
                    /\ InsideContainer(fit_result.placed[i], fit_container)
                    /\ \A j \in 1..(i - 1) :
                          ~BoxesIntersect(fit_result.placed[i], fit_result.placed[j])

\* pack_recursive_helper has placed two boxes of different shapes given in
\* ascending order of volume
C14_Witness ==
    /\ fit_pc = "helper done"
    /\ Len(fit_boxes) = 2
    /\ fit_boxes[1].volume < fit_boxes[2].volume
    /\ fit_result.found
    /\ FindsPlacement(<<fit_boxes[2], fit_boxes[1]>>)

\* pack_recursive_helper has found no placement for a list that it places in
\* descending order of volume
C14_WitnessOrderMatters ==
    /\ fit_pc = "helper done"
    /\ ~fit_result.found
    /\ FindsPlacement(sorted_by_volume_desc(fit_boxes))

-----------------------------------------------------------------------------
(* Properties of the combination search.                                   *)

\* the boxes of a set of entry positions, in the order of the positions
BoxesAt(positions) ==
    LET at == [k \in 1..Cardinality(positions) |->
                 CHOOSE i \in positions :
                   Cardinality({ j \in positions : j < i }) = k - 1]
    IN  [k \in 1..Cardinality(positions) |-> parse_box_string(box_entries[at[k]], at[k]).placed[1]]

\* the enumeration order of subsets: the smaller first, and of two of one
\* size the one that holds the least position they do not share
EnumeratedBefore(S, T) ==
    \/ Cardinality(S) < Cardinality(T)
    \/ /\ Cardinality(S) = Cardinality(T)
       /\ S # T
       /\ \E i \in S \ T : \A j \in T \ S : i < j

\* the containers of the list that take the subset: its volume is within the
\* container's and check_fit finds a placement
ContainersTaking(positions) ==
    { c \in 1..Len(containers) :
        /\ sum_volume(BoxesAt(positions)) <= containers[c].volume
        /\ check_fit(BoxesAt(positions), containers[c], run_order).found }

\* the subsets the search has a solution for: two or more valid entries,
\* not rejected for their weight, taken by some container
SolvedSubsets ==
    { S \in SUBSET ValidEntries :
        /\ Cardinality(S) >= 2
        /\ ~greater_than(ListWeight(BoxesAt(S)), MaxWeight)
        /\ ContainersTaking(S) # {} }

\* C15: after a full run successful_fits holds one solution for each subset
\* of two or more valid entries that is within the weight limit and is taken
\* by some container of the list, and nothing else; the solution's container
\* is the first that takes the subset and no later container was tried for
\* it; the solutions are in enumeration order, numbered from 1.
C15_CombinationSearch ==
    RunComplete =>
        /\ Len(successful_fits) = Cardinality(SolvedSubsets)
        /\ \A s \in 1..Len(successful_fits) :
              LET fit == successful_fits[s]
                  S == PlacedNames(fit.boxes)
              IN  /\ S \in SolvedSubsets
                  /\ \E c \in ContainersTaking(S) :
                        /\ \A e \in ContainersTaking(S) : c <= e
                        /\ fit.container = containers[c]
                        /\ fit.boxes = check_fit(BoxesAt(S), containers[c], run_order).placed
                        /\ \A f \in 1..Len(fit_calls) :
                              fit_calls[f].boxes = BoxesAt(S) =>
                                \E e \in 1..c : fit_calls[f].container = containers[e]
                  /\ fit.name.fit = s
                  /\ fit.name.container = fit.container
                  /\ fit.name.box_names = [j \in 1..Len(BoxesAt(S)) |-> BoxesAt(S)[j].name]
        /\ \A s, t \in 1..Len(successful_fits) :
              s < t => EnumeratedBefore(PlacedNames(successful_fits[s].boxes),
                                        PlacedNames(successful_fits[t].boxes))

\* a full run has left three solutions, the first in the first of several
\* containers of the list that take its boxes and not in the last of them;
\* a subset that some container takes was rejected for its weight
C15_Witness ==
    /\ RunComplete
    /\ Len(successful_fits) = 3
    /\ LET S == PlacedNames(successful_fits[1].boxes)
       IN  \E c, e \in ContainersTaking(S) :
              c < e /\ successful_fits[1].container = containers[c]
    /\ \E S \in SUBSET ValidEntries :
          /\ greater_than(ListWeight(BoxesAt(S)), MaxWeight)
          /\ ContainersTaking(S) # {}

=============================================================================
